---------------------------- MODULE Spec2Model ----------------------------
(***************************************************************************)
(* A model of PXAxios (src/src/core/axiosClass.ts): the persistent header  *)
(* table and its merge/clear operations, the request and response          *)
(* interceptors installed by the constructor, and the recursive form       *)
(* encoder createFormData.                                                  *)
(*                                                                         *)
(* Three representations are used:                                         *)
(*   - header names, header values and tokens are atomic strings;          *)
(*   - JavaScript values whose conversion matters (payload codes,          *)
(*     messages, form data) are records [t, n, s, items] where s is a      *)
(*     sequence of one-character strings, so that Number(..), String(..)   *)
(*     and the field-name syntax are computed character by character;      *)
(*   - observer invocations and the settlement of a call are events        *)
(*     appended to the call's trace in the order the code performs them.   *)
(***************************************************************************)
EXTENDS Integers, Sequences, FiniteSets

VARIABLES
    headers,    \* instance.defaults.headers: scope -> [exists, h: name -> value]
    last,       \* history: what the most recent setGlobalHeaders naming (scope, name) gave
    call,       \* history: the most recent header operation and how its argument reads
    options,    \* this.options, fixed by the constructor
    session,    \* the token store read by getToken
    phase,      \* "idle" | "sent" | "settled": the followed call
    req,        \* the request config after the request interceptor
    trace,      \* the followed call's events: getToken, the transport's answer,
                \* the observers invoked, the settlement the caller sees
    formIn,     \* the data handed to createFormData
    formOut,    \* the FormData's fields, in append order
    formPc      \* "ready" | "form" | "json": whether post ran and what body it made

vars == <<headers, last, call, options, session, phase, req, trace, formIn, formOut, formPc>>

headerVars == <<headers, last, call>>
pipeVars == <<options, session, phase, req, trace>>
formVars == <<formIn, formOut, formPc>>

(***************************************************************************)
(* Bounds of the model.                                                    *)
(***************************************************************************)
\* header entries one setGlobalHeaders call may carry
MaxEntries == 2
\* entries of options.errorCodeArray
MaxCodes == 2
\* nodes (leaves and containers) below the top-level object handed to the form encoder
MaxNodes == 4

(***************************************************************************)
(* The header table.                                                       *)
(***************************************************************************)
methodKeys == <<"common", "get", "post", "put", "delete", "patch", "head", "options">>

Method == {methodKeys[i] : i \in 1..Len(methodKeys)}

\* header names callers set, and the one axios itself ships in `common`
InNames == {"X-A", "Authorization"}
AllNames == InNames \cup {"Accept"}
Values == {"1", "2"}

Absent == "<absent>"     \* the name is not a key of the object
NullV == "<null>"        \* the key is given with the value null
NoKey == "<nokey>"       \* the key is not given

NoHeaders == [n \in AllNames |-> Absent]

\* axios.create: every verb scope of the axios defaults exists, `common` carries
\* Accept; axios ships no `options` scope.
InitialHeaders ==
    [m \in Method |->
        IF m = "common" THEN [exists |-> TRUE, h |-> [NoHeaders EXCEPT !["Accept"] = "json"]]
        ELSE IF m = "options" THEN [exists |-> FALSE, h |-> NoHeaders]
        ELSE [exists |-> TRUE, h |-> NoHeaders]]

\* The argument of setGlobalHeaders: a top-level object whose keys are header
\* names (flat) and/or verb-scope names (scoped).
NoScopeKey == [present |-> FALSE, h |-> [n \in InNames |-> NoKey]]

ScopeArgs(names) ==
    {NoScopeKey} \cup
    {[present |-> TRUE, h |-> [n \in InNames |-> IF n \in names THEN g[n] ELSE NoKey]] :
        g \in [names -> Values \cup {NullV, NoKey}]}

EntryCount(inp) ==
    Cardinality({n \in InNames : inp.flat[n] # NoKey}) +
    Cardinality({<<m, n>> \in Method \X InNames : inp.scoped[m].h[n] # NoKey})

InputsOver(names, scopes, max) ==
    {inp \in
        {[flat |-> [n \in InNames |-> IF n \in names THEN g[n] ELSE NoKey],
          scoped |-> [m \in Method |-> IF m \in scopes THEN f[m] ELSE NoScopeKey]] :
            g \in [names -> Values \cup {NullV, NoKey}],
            f \in [scopes -> ScopeArgs(names)]} :
        EntryCount(inp) <= max}

NoInput == [flat |-> [n \in InNames |-> NoKey], scoped |-> [m \in Method |-> NoScopeKey]]

\* Object.keys(obj).some(k => methodKeys.includes(k))
isMethodBased(inp) == \E i \in 1..Len(methodKeys) : inp.scoped[methodKeys[i]].present

\* Object.entries(methodHeaders).forEach: null deletes (through ?., so a missing
\* scope stays missing), any other value creates the scope if needed and sets.
\* The keys of one object are distinct, so the loop is a pointwise update.
ScopedEntries(scope, h) ==
    [exists |-> scope.exists \/ \E n \in InNames : h[n] \notin {NoKey, NullV},
     h |-> [n \in AllNames |->
              IF n \notin InNames \/ h[n] = NoKey THEN scope.h[n]
              ELSE IF h[n] = NullV THEN Absent ELSE h[n]]]

\* The flat branch: delete defaultHeaders.common[key] / defaultHeaders.common[key] = value
MutFlatEntries(scope, h) ==
    [exists |-> scope.exists,
     h |-> [n \in AllNames |->
              IF n \notin InNames \/ h[n] \in {NoKey, NullV} THEN scope.h[n] ELSE h[n]]]

FlatEntries(scope, h) ==
    [exists |-> scope.exists,
     h |-> [n \in AllNames |->
              IF n \notin InNames \/ h[n] = NoKey THEN scope.h[n]
              ELSE IF h[n] = NullV THEN Absent ELSE h[n]]]

MutMergeHeaders(tbl, inp) ==
    IF isMethodBased(inp)
    THEN [m \in Method |->
            IF inp.scoped[m].present THEN ScopedEntries(tbl["common"], inp.scoped[m].h)
            ELSE tbl[m]]
    ELSE [tbl EXCEPT !["common"] = FlatEntries(tbl["common"], inp.flat)]

\* the body of setGlobalHeaders, as a function of the table
MergeHeaders(tbl, inp) ==
    IF isMethodBased(inp)
    THEN [m \in Method |->
            IF inp.scoped[m].present THEN ScopedEntries(tbl[m], inp.scoped[m].h)
            ELSE tbl[m]]
    ELSE [tbl EXCEPT !["common"] = FlatEntries(tbl["common"], inp.flat)]

MutClearedHeaders(tbl) ==
    [m \in Method |-> IF m = "common" THEN [exists |-> tbl[m].exists, h |-> NoHeaders] ELSE tbl[m]]

\* the body of clearGlobalHeaders: every key of every scope that exists is deleted
ClearedHeaders(tbl) ==
    [m \in Method |-> IF tbl[m].exists THEN [exists |-> TRUE, h |-> NoHeaders] ELSE tbl[m]]

(***************************************************************************)
(* History of the header operations.  Given(inp, m, n) is the value a call  *)
(* gives to (scope, name), NoKey when it does not name it: a header under  *)
(* a scope key names that scope; a top-level header names `common` when no *)
(* top-level key is a scope name, and nothing otherwise.                   *)
(***************************************************************************)
PerScope(inp) == \E m \in Method : inp.scoped[m].present

Given(inp, m, n) ==
    IF PerScope(inp) THEN inp.scoped[m].h[n]
    ELSE IF m = "common" THEN inp.flat[n] ELSE NoKey

NoHistory == [m \in Method |-> [n \in InNames |-> "none"]]

Recorded(hist, inp) ==
    [m \in Method |-> [n \in InNames |->
        IF Given(inp, m, n) # NoKey THEN Given(inp, m, n) ELSE hist[m][n]]]

\* what is kept of a call's argument: whether some top-level key is a scope
\* name, its top-level headers, and the headers under each scope key
Reading(inp) ==
    [perScope |-> PerScope(inp),
     flat |-> inp.flat,
     scoped |-> [m \in Method |-> inp.scoped[m].h]]

InitCall == [op |-> "new", read |-> Reading(NoInput)]

HeadersInit ==
    /\ headers = InitialHeaders
    /\ last = NoHistory
    /\ call = InitCall

setGlobalHeaders(inp) ==
    /\ headers' = MergeHeaders(headers, inp)
    /\ last' = Recorded(last, inp)
    /\ call' = [op |-> "setGlobalHeaders", read |-> Reading(inp)]

clearGlobalHeaders ==
    /\ headers' = ClearedHeaders(headers)
    /\ last' = NoHistory
    /\ call' = [op |-> "clearGlobalHeaders", read |-> Reading(NoInput)]

(***************************************************************************)
(* JavaScript values.  t is the type tag, n the number (or the blob's      *)
(* identity), s the text as a sequence of one-character strings, items the *)
(* elements of an array or the members of an object (each member a value   *)
(* tagged "member" whose s is the key and whose single item is the value). *)
(***************************************************************************)
JS(t, n, s, items) == [t |-> t, n |-> n, s |-> s, items |-> items]

Undefined == JS("undefined", 0, <<>>, <<>>)
Null == JS("null", 0, <<>>, <<>>)
NaN == JS("nan", 0, <<>>, <<>>)
Hole == JS("hole", 0, <<>>, <<>>)        \* an index a sparse array does not hold
Num(n) == JS("number", n, <<>>, <<>>)
Str(s) == JS("string", 0, s, <<>>)
Blob(n) == JS("blob", n, <<>>, <<>>)
Arr(items) == JS("array", 0, <<>>, items)
Obj(members) == JS("object", 0, <<>>, members)
Member(key, val) == JS("member", 0, key, <<val>>)

DigitChars == <<"0", "1", "2", "3", "4", "5", "6", "7", "8", "9">>

IsDigit(c) == \E d \in 1..Len(DigitChars) : DigitChars[d] = c

DigitValue(c) == (CHOOSE d \in 1..Len(DigitChars) : DigitChars[d] = c) - 1

RECURSIVE NatToString(_)
\* the decimal text of a non-negative integer
NatToString(n) ==
    IF n < 10 THEN <<DigitChars[n + 1]>>
    ELSE NatToString(n \div 10) \o <<DigitChars[(n % 10) + 1]>>

RECURSIVE DigitsToNat(_)
DigitsToNat(s) ==
    IF s = <<>> THEN 0
    ELSE 10 * DigitsToNat(SubSeq(s, 1, Len(s) - 1)) + DigitValue(s[Len(s)])

\* Number(v) on the scalars of the model: "" is 0, a run of decimal digits is its
\* value, any other text is NaN; null is 0, undefined is NaN.
Number(v) ==
    CASE v.t = "number" -> v
      [] v.t = "null" -> Num(0)
      [] v.t = "string" ->
            IF \A i \in 1..Len(v.s) : IsDigit(v.s[i]) THEN Num(DigitsToNat(v.s)) ELSE NaN
      [] OTHER -> NaN

\* String(v) on the scalars of the model
String(v) ==
    CASE v.t = "string" -> v.s
      [] v.t = "number" -> NatToString(v.n)
      [] v.t = "null" -> <<"n", "u", "l", "l">>
      [] v.t = "undefined" -> <<"u", "n", "d", "e", "f", "i", "n", "e", "d">>
      [] v.t = "nan" -> <<"N", "a", "N">>
      [] OTHER -> <<"[", "o", "b", "j", "e", "c", "t", "]">>

Truthy(v) ==
    CASE v.t \in {"undefined", "null", "nan"} -> FALSE
      [] v.t = "number" -> v.n # 0
      [] v.t = "string" -> v.s # <<>>
      [] OTHER -> TRUE

\* Array.prototype.includes compares by SameValueZero: no coercion between a
\* number and a string, and NaN equals NaN.
SameValueZero(a, b) == a.t = b.t /\ a.n = b.n /\ a.s = b.s

Includes(arr, v) == \E i \in 1..Len(arr) : SameValueZero(arr[i], v)

(***************************************************************************)
(* The form encoder.                                                       *)
(***************************************************************************)
Field(name, value) == JS("field", 0, name, <<value>>)

FormData(fields) == JS("formdata", 0, <<>>, fields)

IsBlob(v) == v.t = "blob"              \* value instanceof File || value instanceof Blob
IsArray(v) == v.t = "array"            \* Array.isArray(value)
IsObject(v) == v.t \in {"object", "array", "blob", "formdata"}   \* typeof value === 'object' && value !== null

RECURSIVE appendFormData(_, _)
RECURSIVE AppendItems(_, _, _)
RECURSIVE AppendMembers(_, _, _)

\* value.forEach((item, index) => appendFormData(`${key}[${index}]`, item)), from
\* the i-th element on; forEach does not visit the holes of a sparse array
AppendItems(key, items, i) ==
    IF i > Len(items) THEN <<>>
    ELSE (IF items[i].t = "hole" THEN <<>>
          ELSE appendFormData(key \o <<"[">> \o NatToString(i - 1) \o <<"]">>, items[i]))
         \o AppendItems(key, items, i + 1)

MutAppendMembers(key, members, i) ==
    IF i > Len(members) THEN <<>>
    ELSE appendFormData(key \o members[i].s, members[i].items[1])
         \o AppendMembers(key, members, i + 1)

\* Object.entries(value).forEach(([subKey, subValue]) => appendFormData(`${key}.${subKey}`, subValue))
AppendMembers(key, members, i) ==
    IF i > Len(members) THEN <<>>
    ELSE appendFormData(key \o <<".">> \o members[i].s, members[i].items[1])
         \o AppendMembers(key, members, i + 1)

MutAppendFormData(key, value) ==
    IF IsBlob(value) THEN <<Field(key, value)>>
    ELSE IF IsArray(value) THEN AppendItems(key \o <<"[">> \o <<"]">>, value.items, 1)
    ELSE IF IsObject(value) THEN AppendMembers(key, value.items, 1)
    ELSE <<Field(key, Str(String(value)))>>

\* the fields appendFormData(key, value) appends, in order
appendFormData(key, value) ==
    IF IsBlob(value) THEN <<Field(key, value)>>
    ELSE IF IsArray(value) THEN AppendItems(key, value.items, 1)
    ELSE IF IsObject(value) THEN AppendMembers(key, value.items, 1)
    ELSE <<Field(key, Str(String(value)))>>

RECURSIVE AppendTop(_, _)
\* Object.entries(data).forEach: undefined and null values are skipped
AppendTop(members, i) ==
    IF i > Len(members) THEN <<>>
    ELSE (IF members[i].items[1].t \in {"undefined", "null"} THEN <<>>
          ELSE appendFormData(members[i].s, members[i].items[1]))
         \o AppendTop(members, i + 1)

createFormData(data) == FormData(AppendTop(data.items, 1))

\* needForm && data ? this.createFormData(data) : (data || {})
SubmitData(data, needForm) ==
    IF needForm /\ Truthy(data) THEN createFormData(data)
    ELSE IF Truthy(data) THEN data ELSE Obj(<<>>)

(***************************************************************************)
(* The request pipeline.                                                   *)
(***************************************************************************)
\* what getToken may yield: null, the empty string, a token
Tokens == {NullV, "", "tok"}

\* const { errorCodeArray = [] } = this.options; the observers are optional
CodeEntries == {Num(4), Num(0), Str(<<"4">>), NaN}

CodeArrays == UNION {[1..k -> CodeEntries] : k \in 0..MaxCodes}

Options ==
    [errorCodeArray : {Undefined, Null} \cup {Arr(a) : a \in CodeArrays},
     onResponse : BOOLEAN,
     onResponseError : BOOLEAN]

\* new PXAxios(): no option given
DefaultOptions == [errorCodeArray |-> Undefined, onResponse |-> FALSE, onResponseError |-> FALSE]

Config(method, responseType, params, data) ==
    [method |-> method, responseType |-> responseType, headers |-> NoHeaders,
     params |-> params, data |-> data]

NoConfig == Config("none", "json", Undefined, Undefined)

\* What a promise settles with and what an observer is handed: a response
\* (its decoded payload), an Error (its message), or nothing.
Response(data) == [kind |-> "response", data |-> data, message |-> <<>>]
Error(message) == [kind |-> "Error", data |-> Undefined, message |-> String(message)]
AxiosError(message) == [kind |-> "AxiosError", data |-> Undefined, message |-> message]
Nothing == [kind |-> "none", data |-> Undefined, message |-> <<>>]

Event(ev, arg) == [ev |-> ev, arg |-> arg]

\* '请求失败' ("the request failed")
DefaultMessage == <<"f", "a", "i", "l", "e", "d">>

codeKey == <<"c", "o", "d", "e">>
messageKey == <<"m", "e", "s", "s", "a", "g", "e">>

\* key in obj
HasKey(obj, key) == \E i \in 1..Len(obj.items) : obj.items[i].s = key

\* obj.key
Prop(obj, key) ==
    IF HasKey(obj, key)
    THEN obj.items[CHOOSE i \in 1..Len(obj.items) : obj.items[i].s = key].items[1]
    ELSE Undefined

\* axios builds config.headers afresh for each request from the header table:
\* the `common` scope overlaid by the scope of the request's method
MergedHeaders(tbl, method) ==
    [n \in AllNames |->
        IF method \in Method /\ tbl[method].exists /\ tbl[method].h[n] # Absent
        THEN tbl[method].h[n]
        ELSE tbl["common"].h[n]]

MutInjectToken(hdrs, token) == hdrs

\* if (token && config.headers) config.headers['Authorization'] = token
InjectToken(hdrs, token) ==
    IF token \notin {NullV, ""} THEN [hdrs EXCEPT !["Authorization"] = token] ELSE hdrs

\* the request interceptor
RequestInterceptor(config, token) ==
    LET c == [config EXCEPT !.headers = InjectToken(@, token)]
    IN  IF c.method = "get"
        THEN [c EXCEPT !.params = IF Truthy(@) THEN @ ELSE Obj(<<>>)]
        ELSE IF c.data.t # "formdata"
        THEN [c EXCEPT !.data = IF Truthy(@) THEN @ ELSE Obj(<<>>)]
        ELSE c

MutRejectionMessage(data) == Prop(data, messageKey)

\* data.message || '请求失败'
RejectionMessage(data) ==
    IF Truthy(Prop(data, messageKey)) THEN Prop(data, messageKey) ELSE Str(DefaultMessage)

\* const { errorCodeArray = [] } = this.options
CodeArray(opts) ==
    IF opts.errorCodeArray = Undefined THEN Arr(<<>>) ELSE opts.errorCodeArray

\* data && typeof data === 'object' && 'code' in data, and
\* Array.isArray(errorCodeArray) && errorCodeArray.includes(Number(data.code))
Intercepted(opts, data) ==
    /\ Truthy(data) /\ IsObject(data) /\ HasKey(data, codeKey)
    /\ IsArray(CodeArray(opts))
    /\ Includes(CodeArray(opts).items, Number(Prop(data, codeKey)))

MutObserve(supplied, ev, arg) == <<>>

\* this.options.onResponse?.(response), this.options.onResponseError?.(error)
Observe(supplied, ev, arg) == IF supplied THEN <<Event(ev, arg)>> ELSE <<>>

\* the response interceptor's first handler
onFulfilled(opts, config, response) ==
    Observe(opts.onResponse, "onResponse", response) \o
    (IF config.responseType = "blob" THEN <<Event("resolve", response)>>
     ELSE IF Intercepted(opts, response.data)
     THEN <<Event("reject", Error(RejectionMessage(response.data)))>>
     ELSE <<Event("resolve", response)>>)

\* the response interceptor's second handler
onRejected(opts, error) ==
    Observe(opts.onResponseError, "onResponseError", error) \o <<Event("reject", error)>>

\* interceptors.response.use(onFulfilled, onRejected) is promise.then(onFulfilled,
\* onRejected): a rejection made by onFulfilled does not pass through onRejected
Then(opts, config, settled) ==
    IF settled.kind = "response" THEN onFulfilled(opts, config, settled)
    ELSE onRejected(opts, settled)

ParamInputs == {Undefined, Obj(<<Member(<<"q">>, Num(1))>>)}
DataInputs == {Undefined, Obj(<<Member(<<"a">>, Str(<<"x">>))>>)}
RequestMethods == {"get", "patch"}
ResponseTypes == {"json", "blob"}

PayloadCodes ==
    {Num(4), Num(0), Str(<<"4">>), Str(<<"0", "4">>), Str(<<>>), Str(<<"a">>), Null}

PayloadMessages == {Null, Str(<<>>), Str(<<"x">>)}

\* decoded payloads: text that did not parse, null, a blob, objects with or
\* without `code` and `message`
Payloads ==
    {Str(<<"a">>), Null, Blob(1)} \cup
    {Obj(c \o m) :
        c \in {<<>>} \cup {<<Member(codeKey, v)>> : v \in PayloadCodes},
        m \in {<<>>} \cup {<<Member(messageKey, v)>> : v \in PayloadMessages}}

TransportErrors == {AxiosError(<<"n", "e", "t">>), AxiosError(<<"5", "0", "0">>)}

PipeInit(optionSet) ==
    /\ options \in optionSet
    /\ session = NullV
    /\ phase = "idle"
    /\ req = NoConfig
    /\ trace = <<>>

\* instance.request(config): the header merge, the request interceptor (which
\* calls getToken), then the transport
Dispatch(config) ==
    /\ req' = RequestInterceptor(
                [config EXCEPT !.headers = MergedHeaders(headers, config.method)], session)
    /\ trace' = <<Event("getToken", Nothing)>>
    /\ phase' = "sent"
    /\ UNCHANGED <<options, session, headerVars, formVars>>

get ==
    \E params \in ParamInputs : Dispatch(Config("get", "json", params, Undefined))

post ==
    \E data \in DataInputs, needForm \in BOOLEAN :
        Dispatch(Config("post", "json", Undefined, SubmitData(data, needForm)))

exportPost ==
    \E data \in DataInputs, needForm \in BOOLEAN :
        Dispatch(Config("post", "blob", Undefined, SubmitData(data, needForm)))

put ==
    \E data \in DataInputs : Dispatch(Config("put", "json", Undefined, data))

delete ==
    \E params \in ParamInputs, data \in DataInputs :
        Dispatch(Config("delete", "json", params, data))

request ==
    \E method \in RequestMethods, responseType \in ResponseTypes, data \in DataInputs :
        Dispatch(Config(method, responseType, Undefined, data))

\* the transport answers the followed call with a response
TransportSuccess ==
    /\ phase = "sent"
    /\ \E data \in Payloads :
            trace' = trace \o <<Event("transport", Response(data))>>
                           \o Then(options, req, Response(data))
    /\ phase' = "settled"
    /\ UNCHANGED <<options, session, req, headerVars, formVars>>

\* the transport fails the followed call
TransportError ==
    /\ phase = "sent"
    /\ \E error \in TransportErrors :
            trace' = trace \o <<Event("transport", error)>> \o Then(options, req, error)
    /\ phase' = "settled"
    /\ UNCHANGED <<options, session, req, headerVars, formVars>>

\* sessionStorage.setItem('token', ..) / removeItem('token') by the application
StoreToken ==
    /\ \E token \in Tokens : session' = token
    /\ session' # session
    /\ UNCHANGED <<options, phase, req, trace, headerVars, formVars>>

SetHeaders(inputs) ==
    /\ \E inp \in inputs : setGlobalHeaders(inp)
    /\ UNCHANGED <<pipeVars, formVars>>

ClearHeaders ==
    /\ clearGlobalHeaders
    /\ UNCHANGED <<pipeVars, formVars>>

(***************************************************************************)
(* The data handed to the form encoder: every object of at most MaxNodes   *)
(* nodes over these leaves and keys; arrays may be sparse.                 *)
(***************************************************************************)
Leaves == {Str(<<"x">>), Num(12), Null, Blob(1)}
Keys == {<<"a">>, <<"b", "c">>}

RECURSIVE ItemSeqs(_, _)
\* the element sequences of exactly n nodes, bySize[k] being the values of
\* exactly k nodes; a hole counts as one node
ItemSeqs(n, bySize) ==
    IF n = 0 THEN {<<>>}
    ELSE UNION {{<<v>> \o rest :
                    v \in bySize[k] \cup (IF k = 1 THEN {Hole} ELSE {}),
                    rest \in ItemSeqs(n - k, bySize)} :
                k \in 1..n}

RECURSIVE MemberSeqs(_, _, _)
\* the member sequences of exactly n nodes whose keys are distinct and not used
MemberSeqs(n, bySize, used) ==
    IF n = 0 THEN {<<>>}
    ELSE UNION {{<<Member(kk[2], v)>> \o rest :
                    v \in bySize[kk[1]],
                    rest \in MemberSeqs(n - kk[1], bySize, used \cup {kk[2]})} :
                kk \in (1..n) \X (Keys \ used)}

\* the values of exactly Len(bySize) + 1 nodes
NextSize(bySize) ==
    (IF bySize = <<>> THEN Leaves ELSE {})
    \cup {Arr(items) : items \in ItemSeqs(Len(bySize), bySize)}
    \cup {Obj(members) : members \in MemberSeqs(Len(bySize), bySize, {})}

RECURSIVE BySize(_)
\* BySize(n)[k], for k in 1..n, is the set of values of exactly k nodes
BySize(n) ==
    IF n = 0 THEN <<>>
    ELSE LET smaller == BySize(n - 1) IN Append(smaller, NextSize(smaller))

\* ValuesBySize[k] is the set of values of exactly k nodes
ValuesBySize == BySize(MaxNodes)

\* the data is the empty object, or a first member followed by more members,
\* of at most MaxNodes nodes in all
FormInit ==
    /\ \E n \in 0..MaxNodes :
         \/ n = 0 /\ formIn = Obj(<<>>)
         \/ \E kk \in (1..n) \X Keys :
              \E v \in ValuesBySize[kk[1]] :
                \E rest \in MemberSeqs(n - kk[1], ValuesBySize, {kk[2]}) :
                  formIn = Obj(<<Member(kk[2], v)>> \o rest)
    /\ formOut = <<>>
    /\ formPc = "ready"

\* post(url, data, true): the body is createFormData(data)
PostForm ==
    /\ formPc = "ready"
    /\ formOut' = SubmitData(formIn, TRUE).items
    /\ formPc' = IF SubmitData(formIn, TRUE).t = "formdata" THEN "form" ELSE "json"
    /\ UNCHANGED <<formIn, headerVars, pipeVars>>

\* post(url, data, false): the body is the data itself, no field is made
PostJson ==
    /\ formPc = "ready"
    /\ formOut' = <<>>
    /\ formPc' = IF SubmitData(formIn, FALSE).t = "formdata" THEN "form" ELSE "json"
    /\ UNCHANGED <<formIn, headerVars, pipeVars>>

(***************************************************************************)
(* The specifications.  SpecHeaders follows the header table alone,        *)
(* SpecDispatch the header table together with the requests dispatched,    *)
(* SpecResponse a client of any options through its calls and their        *)
(* settlement, SpecForm the form encoder on every bounded input.           *)
(***************************************************************************)
HeaderInputs == InputsOver({"X-A"}, {"common", "post", "options"}, MaxEntries)

DispatchHeaderInputs == InputsOver({"Authorization"}, {}, MaxEntries)

Idle ==
    /\ options = DefaultOptions
    /\ session = NullV
    /\ phase = "idle"
    /\ req = NoConfig
    /\ trace = <<>>

NoForm ==
    /\ formIn = Obj(<<>>)
    /\ formOut = <<>>
    /\ formPc = "ready"

InitHeaders == HeadersInit /\ Idle /\ NoForm

NextHeaders == SetHeaders(HeaderInputs) \/ ClearHeaders

SpecHeaders == InitHeaders /\ [][NextHeaders]_vars

InitDispatch == HeadersInit /\ Idle /\ NoForm

NextDispatch ==
    \/ get \/ post \/ exportPost \/ put \/ delete \/ request
    \/ StoreToken
    \/ SetHeaders(DispatchHeaderInputs) \/ ClearHeaders

SpecDispatch == InitDispatch /\ [][NextDispatch]_vars

InitResponse == HeadersInit /\ PipeInit(Options) /\ NoForm

NextResponse ==
    \/ get \/ post \/ exportPost \/ put \/ delete \/ request
    \/ TransportSuccess \/ TransportError

SpecResponse == InitResponse /\ [][NextResponse]_vars

InitForm == HeadersInit /\ Idle /\ FormInit

NextForm == PostForm \/ PostJson

SpecForm == InitForm /\ [][NextForm]_vars

(***************************************************************************)
(* Reading a settled call's trace.                                         *)
(***************************************************************************)
Settled == phase = "settled"

\* what the transport answered, and what the caller finally sees
Answer == trace[2].arg
Outcome == trace[Len(trace)]

EventsOf(ev) == {i \in 1..Len(trace) : trace[i].ev = ev}

\* the answer is a response, not of type blob, whose payload is an object with a code
CodedAnswer ==
    /\ Settled
    /\ Answer.kind = "response"
    /\ req.responseType # "blob"
    /\ Answer.data.t = "object"
    /\ HasKey(Answer.data, codeKey)

AnswerCode == Number(Prop(Answer.data, codeKey))

\* the text of the payload's message; missing, null and "" count as no message
AnswerMessage ==
    LET m == Prop(Answer.data, messageKey)
    IN  IF m.t \in {"undefined", "null"} \/ m.s = <<>> THEN DefaultMessage ELSE m.s

\* C1: a non-blob response whose payload is an object with a `code`: when
\* Number(code) is an entry of errorCodeArray the call fails with an Error whose
\* message is the payload's message, or the default message when that is
\* missing or empty; when errorCodeArray is empty or absent the call resolves
\* with the response.
C1_CodeInterception ==
    CodedAnswer =>
        /\ (/\ options.errorCodeArray.t = "array"
            /\ \E i \in 1..Len(options.errorCodeArray.items) :
                    options.errorCodeArray.items[i] = AnswerCode)
           => /\ Outcome.ev = "reject"
              /\ Outcome.arg.kind = "Error"
              /\ Outcome.arg.message = AnswerMessage
        /\ (\/ options.errorCodeArray \in {Undefined, Null}
            \/ options.errorCodeArray = Arr(<<>>))
           => Outcome = Event("resolve", Answer)

C1_Witness ==
    /\ CodedAnswer
    /\ options.errorCodeArray = Arr(<<Num(4)>>)
    /\ Prop(Answer.data, codeKey) = Str(<<"0", "4">>)
    /\ Outcome.ev = "reject"
    /\ Outcome.arg.message = <<"x">>

\* C2 as stated: whenever a call fails and onResponseError is supplied, the
\* observer was invoked with that error before the failure reached the caller.
C2_EveryFailureObserved ==
    (Settled /\ Outcome.ev = "reject" /\ options.onResponseError) =>
        \E i \in EventsOf("onResponseError") : i < Len(trace) /\ trace[i].arg = Outcome.arg

\* C3 as stated: a response whose code is the number c fails the call when
\* errorCodeArray holds the number c and also when it holds the text of c.
C3_StringEntryIntercepts ==
    (/\ CodedAnswer
     /\ Prop(Answer.data, codeKey).t = "number"
     /\ options.errorCodeArray.t = "array"
     /\ \E i \in 1..Len(options.errorCodeArray.items) :
            \/ options.errorCodeArray.items[i] = Prop(Answer.data, codeKey)
            \/ options.errorCodeArray.items[i] = Str(String(Prop(Answer.data, codeKey))))
    => Outcome.ev = "reject"

\* C4: when a response is not intercepted (the call resolves) and onResponse is
\* supplied, the observer is invoked exactly once, with that response, before
\* the response is returned to the caller.
C4_ResponseObserved ==
    (Settled /\ Outcome.ev = "resolve" /\ options.onResponse) =>
        /\ Cardinality(EventsOf("onResponse")) = 1
        /\ \A i \in EventsOf("onResponse") :
                /\ trace[i].arg = Answer
                /\ trace[i].arg = Outcome.arg
                /\ i < Len(trace)

C4_Witness ==
    /\ Settled
    /\ options.onResponse
    /\ Outcome.ev = "resolve"
    /\ Answer.data.t = "object"
    /\ trace[3] = Event("onResponse", Answer)

\* a step that dispatches a request (only a dispatch changes req or phase)
DispatchStep == req' # req \/ phase' # phase

\* C5: each dispatch invokes the token accessor once; a non-empty token is the
\* Authorization header of that request, and otherwise the request carries what
\* the header table gives; no dispatch changes the header table, which only
\* setGlobalHeaders and clearGlobalHeaders change.
C5_TokenPerRequest ==
    [][/\ DispatchStep =>
            /\ Cardinality({i \in 1..Len(trace') : trace'[i].ev = "getToken"}) = 1
            /\ headers' = headers
            /\ \A n \in AllNames :
                    req'.headers[n] =
                        IF n = "Authorization" /\ session \notin {NullV, ""}
                        THEN session
                        ELSE MergedHeaders(headers, req'.method)[n]
       /\ headers' # headers =>
            /\ call'.op \in {"setGlobalHeaders", "clearGlobalHeaders"}
            /\ ~DispatchStep]_vars

C5_Witness ==
    /\ phase = "sent"
    /\ session = "tok"
    /\ req.headers["Authorization"] = "tok"
    /\ headers["common"].h["Authorization"] = "1"

(***************************************************************************)
(* The header table's claims.                                              *)
(***************************************************************************)
\* what a header holds after a call gave it v
Held(v) == IF v = NullV THEN Absent ELSE v

SetStep == call'.op = "setGlobalHeaders"

\* what a recorded call gives to (scope, name)
ReadGiven(r, m, n) ==
    IF r.perScope THEN r.scoped[m][n]
    ELSE IF m = "common" THEN r.flat[n] ELSE NoKey

\* C6: for every scope and header name named by at least one setGlobalHeaders
\* call, the header is absent from the scope if the most recent call naming it
\* gave null and otherwise holds the value that call gave; and a call that only
\* deletes names that are absent changes nothing.
C6_LastWriteWins ==
    /\ [](\A m \in Method, n \in InNames :
            last[m][n] # "none" => headers[m].h[n] = Held(last[m][n]))
    /\ [][(/\ SetStep
           /\ \A m \in Method, n \in InNames :
                ReadGiven(call'.read, m, n) # NoKey
                => ReadGiven(call'.read, m, n) = NullV /\ headers[m].h[n] = Absent)
          => headers' = headers]_vars

C6_Witness ==
    /\ last["common"]["X-A"] = NullV
    /\ headers["common"].h["X-A"] = Absent
    /\ last["post"]["X-A"] = "2"
    /\ headers["post"].h["X-A"] = "2"
    /\ last["options"]["X-A"] = NullV
    /\ ~headers["options"].exists

\* C7: clearGlobalHeaders leaves every known verb scope without header names,
\* and every scope that existed before it still exists after it.
C7_ClearEmptiesAll ==
    [][call'.op = "clearGlobalHeaders" =>
        /\ \A m \in Method, n \in AllNames : headers'[m].h[n] = Absent
        /\ \A m \in Method : headers[m].exists => headers'[m].exists]_vars

C7_Witness ==
    /\ call.op = "clearGlobalHeaders"
    /\ headers["options"].exists
    /\ \A m \in Method, n \in AllNames : headers[m].h[n] = Absent

\* C8: the argument is read per scope exactly when some top-level key is a scope
\* name: then each header under a scope key is applied to that scope and nothing
\* else changes; otherwise each top-level header is applied to `common` and no
\* other scope changes.
C8_ScopeDisambiguation ==
    [][SetStep =>
        \A m \in Method, n \in AllNames :
            headers'[m].h[n] =
                IF call'.read.perScope
                THEN (IF n \in InNames /\ call'.read.scoped[m][n] # NoKey
                      THEN Held(call'.read.scoped[m][n]) ELSE headers[m].h[n])
                ELSE (IF m = "common" /\ n \in InNames /\ call'.read.flat[n] # NoKey
                      THEN Held(call'.read.flat[n]) ELSE headers[m].h[n])]_vars

C8_Witness ==
    /\ call.op = "setGlobalHeaders"
    /\ call.read.perScope
    /\ call.read.flat["X-A"] = "1"
    /\ call.read.scoped["post"]["X-A"] = "2"
    /\ headers["post"].h["X-A"] = "2"
    /\ headers["common"].h["X-A"] = Absent

(***************************************************************************)
(* Reversing the field names: a name is a key followed by `.key` and       *)
(* `[index]` segments; Rebuild inserts each field's value at its path.     *)
(***************************************************************************)
Delimiters == {".", "["}

\* the first position from i on that holds a delimiter, or one past the end
KeyEnd(name, i) ==
    CHOOSE j \in i..(Len(name) + 1) :
        /\ j = Len(name) + 1 \/ name[j] \in Delimiters
        /\ \A k \in i..(j - 1) : name[k] \notin Delimiters

\* the position of the first "]" after i, or one past the end
CloseAt(name, i) ==
    CHOOSE j \in (i + 1)..(Len(name) + 1) :
        /\ j = Len(name) + 1 \/ name[j] = "]"
        /\ \A k \in (i + 1)..(j - 1) : name[k] # "]"

KeySegment(key) == [kind |-> "key", key |-> key, index |-> 0]
IndexSegment(index) == [kind |-> "index", key |-> <<>>, index |-> index]

RECURSIVE Segments(_, _)
Segments(name, i) ==
    IF i > Len(name) THEN <<>>
    ELSE IF name[i] = "."
    THEN <<KeySegment(SubSeq(name, i + 1, KeyEnd(name, i + 1) - 1))>>
         \o Segments(name, KeyEnd(name, i + 1))
    ELSE IF /\ name[i] = "["
            /\ CloseAt(name, i) <= Len(name)
            /\ CloseAt(name, i) > i + 1
            /\ \A k \in (i + 1)..(CloseAt(name, i) - 1) : IsDigit(name[k])
    THEN <<IndexSegment(DigitsToNat(SubSeq(name, i + 1, CloseAt(name, i) - 1)))>>
         \o Segments(name, CloseAt(name, i) + 1)
    ELSE <<KeySegment(SubSeq(name, i, KeyEnd(name, i + 1) - 1))>>
         \o Segments(name, KeyEnd(name, i + 1))

ParsePath(name) ==
    <<KeySegment(SubSeq(name, 1, KeyEnd(name, 1) - 1))>> \o Segments(name, KeyEnd(name, 1))

RECURSIVE Insert(_, _, _)
Insert(node, path, leaf) ==
    IF path = <<>> THEN leaf
    ELSE IF Head(path).kind = "key"
    THEN LET members == IF node.t = "object" THEN node.items ELSE <<>>
             key == Head(path).key
         IN  IF \E i \in 1..Len(members) : members[i].s = key
             THEN Obj([i \in 1..Len(members) |->
                        IF members[i].s = key
                        THEN Member(key, Insert(members[i].items[1], Tail(path), leaf))
                        ELSE members[i]])
             ELSE Obj(Append(members, Member(key, Insert(Undefined, Tail(path), leaf))))
    ELSE LET items == IF node.t = "array" THEN node.items ELSE <<>>
             at == Head(path).index + 1
             padded == [k \in 1..(IF at > Len(items) THEN at ELSE Len(items)) |->
                            IF k <= Len(items) THEN items[k] ELSE Hole]
         IN  Arr([padded EXCEPT ![at] =
                    Insert(IF @ = Hole THEN Undefined ELSE @, Tail(path), leaf)])

RECURSIVE RebuildFrom(_, _)
RebuildFrom(node, fields) ==
    IF fields = <<>> THEN node
    ELSE RebuildFrom(Insert(node, ParsePath(Head(fields).s), Head(fields).items[1]),
                     Tail(fields))

Rebuild(fields) == RebuildFrom(Obj(<<>>), fields)

RECURSIVE Nodes(_)
\* a value and everything inside it (members included)
Nodes(v) == {v} \cup UNION {Nodes(v.items[i]) : i \in 1..Len(v.items)}

RECURSIVE Textual(_)
\* the value with every leaf that is not a blob replaced by its text
Textual(v) ==
    IF v.t \in {"array", "object", "member"}
    THEN JS(v.t, v.n, v.s, [i \in 1..Len(v.items) |-> Textual(v.items[i])])
    ELSE IF v.t \in {"blob", "hole"} THEN v
    ELSE Str(String(v))

NoBlob(v) == \A x \in Nodes(v) : x.t # "blob"

IsContainer(v) == v.t \in {"array", "object"}

\* no top-level null or undefined, no empty array or object inside, no hole,
\* and no key containing a character of the field-name syntax
Plain(data) ==
    /\ \A i \in 1..Len(data.items) : data.items[i].items[1].t \notin {"null", "undefined"}
    /\ \A x \in Nodes(data) \ {data} :
        /\ IsContainer(x) => x.items # <<>>
        /\ x.t # "hole"
        /\ x.t = "member" => \A k \in 1..Len(x.s) : x.s[k] \notin {".", "[", "]"}

(***************************************************************************)
(* The form encoder's claims.                                              *)
(***************************************************************************)
HasPrefix(s, p) == Len(s) >= Len(p) /\ SubSeq(s, 1, Len(p)) = p

\* the fields made for the array under `key`
FieldsFor(key) == SelectSeq(formOut, LAMBDA f : HasPrefix(f.s, key \o <<"[">>))

IndexedName(key, index) == key \o <<"[">> \o NatToString(index) \o <<"]">>

\* the top-level members whose value is an array
ArrayMembers == {i \in 1..Len(formIn.items) : formIn.items[i].items[1].t = "array"}

\* C9 as stated, on the arrays that hold every index: every array of length N
\* under `key` yields exactly N fields, named key[0] .. key[N-1] in index order.
C9_EveryArray ==
    formPc = "form" =>
        \A i \in ArrayMembers :
            LET key == formIn.items[i].s
                items == formIn.items[i].items[1].items
            IN  (\A j \in 1..Len(items) : items[j].t # "hole")
                => /\ Len(FieldsFor(key)) = Len(items)
                   /\ \A j \in 1..Len(items) : FieldsFor(key)[j].s = IndexedName(key, j - 1)

\* C9 amended: every array under `key` that has no hole and whose N elements
\* are scalars or blobs yields exactly N fields, named key[0] .. key[N-1] in
\* index order, each holding the element's text (a blob as it is).
C9_FlatArray ==
    formPc = "form" =>
        \A i \in ArrayMembers :
            LET key == formIn.items[i].s
                items == formIn.items[i].items[1].items
            IN  (\A j \in 1..Len(items) : ~IsContainer(items[j]) /\ items[j].t # "hole")
                => /\ Len(FieldsFor(key)) = Len(items)
                   /\ \A j \in 1..Len(items) :
                        FieldsFor(key)[j] =
                            Field(IndexedName(key, j - 1),
                                  IF items[j].t = "blob" THEN items[j] ELSE Str(String(items[j])))

C9_Witness ==
    /\ formPc = "form"
    /\ formIn = Obj(<<Member(<<"b", "c">>, Arr(<<Num(12), Blob(1)>>)), Member(<<"a">>, Str(<<"x">>))>>)
    /\ Len(formOut) = 3

\* C10 as stated: for data holding no blob, rebuilding a structure from the
\* field names the encoder produced yields the data.
C10_RoundTrip ==
    (formPc = "form" /\ NoBlob(formIn)) => Rebuild(formOut) = formIn

\* C10 amended: for data holding no blob, no hole, no empty array or object
\* inside, no top-level null or undefined and no key containing `.`, `[` or `]`,
\* rebuilding from the field names yields the data with every leaf replaced by
\* its text.
C10_RoundTripText ==
    (formPc = "form" /\ NoBlob(formIn) /\ Plain(formIn)) => Rebuild(formOut) = Textual(formIn)

C10_Witness ==
    /\ formPc = "form"
    /\ formIn = Obj(<<Member(<<"a">>, Arr(<<Obj(<<Member(<<"b", "c">>, Num(12))>>), Null>>))>>)
    /\ Rebuild(formOut) = Textual(formIn)
    /\ Rebuild(formOut) # formIn

=============================================================================
